---- MODULE Spec2Model ----
(***************************************************************************)
(* A model of tools/build_pubs.py: the BibTeX entry parser, the LaTeX text *)
(* normaliser, the HTML renderer's grouping, the page injector and main.   *)
(*                                                                         *)
(* Text is a sequence of one-character strings.  Positions (i, at, idx,    *)
(* pos, ...) are Python's 0-based indices, so the character at Python      *)
(* index n of s is s[n+1] and the slice s[a:b] is Slice(s, a, b).          *)
(***************************************************************************)
EXTENDS Integers, Sequences, FiniteSets, TLC

\* ------------------------------------------------------------------------
\* Bounds of the model
\* ------------------------------------------------------------------------
MaxPieces == 5
MaxBodyPieces == 4

\* ------------------------------------------------------------------------
\* State
\* ------------------------------------------------------------------------
\* pc is the position of the run that is being modelled.
\* parse_bibtex_entries: its argument bib, its locals, and the list entries.
\* latex_to_unicode: the argument text, the result once and the result of
\*   normalising that result again, twice.
\* build_pubs_html: the list entries, the ordered dict by_year, the sorted
\*   headings years, the fragment pubs_html.
\* inject_pubs: the document html_text, the fragment pubs_html, the result
\*   new_html and the result rerun_html of injecting into new_html again.
\* main: whether BIB_DIR exists, the files of BIB_DIR by name (bib_dir), the
\*   content of index.html (index_html), all_bib and how the run ended.
VARIABLES pc,
          bib, i, entries, at, idx, entry_type, key, entry_body, raw_entry,
          fields, pos,
          text, once, twice,
          by_year, years, pubs_html,
          html_text, new_html, rerun_html,
          dir_exists, bib_dir, index_html, all_bib, exit_status

parseLocals == <<bib, i, at, idx, entry_type, key, entry_body, raw_entry,
                 fields, pos>>
normVars == <<text, once, twice>>
renderVars == <<by_year, years>>
injectVars == <<html_text, new_html, rerun_html>>
mainVars == <<dir_exists, bib_dir, index_html, all_bib, exit_status>>

vars == <<pc, entries, pubs_html, parseLocals, normVars, renderVars,
          injectVars, mainVars>>

\* ------------------------------------------------------------------------
\* Characters and Python string primitives
\* ------------------------------------------------------------------------
BS == "\\"
DQ == "\""
NL == "\n"
\* the grave accent character, written as a token
GR == "grave"

LowerLetters == {"a","b","c","d","e","f","g","h","i","j","k","l","m",
                 "n","o","p","q","r","s","t","u","v","w","x","y","z"}
UpperSeq == <<"A","B","C","D","E","F","G","H","I","J","K","L","M",
              "N","O","P","Q","R","S","T","U","V","W","X","Y","Z">>
LowerSeq == <<"a","b","c","d","e","f","g","h","i","j","k","l","m",
              "n","o","p","q","r","s","t","u","v","w","x","y","z">>
UpperLetters == {UpperSeq[n] : n \in 1..26}
Letters == LowerLetters \cup UpperLetters
Digits == {"0","1","2","3","4","5","6","7","8","9"}

\* str.isspace / the characters str.strip() removes (ASCII part)
Whitespace == {" ", "\t", "\n", "\r", "\f"}

Min(S) == CHOOSE x \in S : \A y \in S : x <= y

\* s[a:b] for 0 <= a
Slice(s, a, b) == SubSeq(s, a + 1, IF b > Len(s) THEN Len(s) ELSE b)

\* s.find(c, from) for a one-character c
Find(s, c, from) ==
  LET hits == {n \in from..(Len(s) - 1) : s[n + 1] = c}
  IN IF hits = {} THEN -1 ELSE Min(hits)

\* s.strip()
Strip(s) ==
  LET keep == {n \in 1..Len(s) : s[n] \notin Whitespace}
  IN IF keep = {} THEN <<>>
     ELSE SubSeq(s, Min(keep), CHOOSE x \in keep : \A y \in keep : y <= x)

\* s.lower()
LowerChar(c) ==
  IF c \in UpperLetters
  THEN LowerSeq[CHOOSE n \in 1..26 : UpperSeq[n] = c]
  ELSE c

Lower(s) == [n \in 1..Len(s) |-> LowerChar(s[n])]

\* true iff needle occurs in s as a contiguous substring
Contains(s, needle) ==
  \E n \in 0..(Len(s) - Len(needle)) : Slice(s, n, n + Len(needle)) = needle

RECURSIVE Concat(_)
Concat(ss) == IF ss = <<>> THEN <<>> ELSE Head(ss) \o Concat(Tail(ss))

\* all sequences over S of length 0..n
SeqsUpTo(S, n) == UNION {[1..m -> S] : m \in 0..n}

\* ------------------------------------------------------------------------
\* parse_bibtex_entries
\* ------------------------------------------------------------------------

\* dict assignment fields[field] = value
DictPut(d, k, v) == [x \in (DOMAIN d) \cup {k} |-> IF x = k THEN v ELSE d[x]]

EmptyDict == [x \in {} |-> <<>>]

\* the depth loop that finds the end of the entry
RECURSIVE DepthScan_flat(_, _, _)
DepthScan_flat(s, n, depth) ==
  IF n < Len(s) /\ depth > 0
  THEN DepthScan_flat(s, n + 1, IF s[n + 1] = "}" THEN depth - 1 ELSE depth)
  ELSE n

RECURSIVE DepthScan(_, _, _)
DepthScan(s, n, depth) ==
  IF n < Len(s) /\ depth > 0
  THEN DepthScan(s, n + 1,
                 IF s[n + 1] = "{" THEN depth + 1
                 ELSE IF s[n + 1] = "}" THEN depth - 1
                 ELSE depth)
  ELSE n

\* skip separators before a field name
RECURSIVE SkipSeparators(_, _)
SkipSeparators(s, p) ==
  IF p < Len(s) /\ s[p + 1] \in {" ", "\t", "\n", ","}
  THEN SkipSeparators(s, p + 1)
  ELSE p

\* skip whitespace before a field value
RECURSIVE SkipSpace(_, _)
SkipSpace(s, p) ==
  IF p < Len(s) /\ s[p + 1] \in Whitespace
  THEN SkipSpace(s, p + 1)
  ELSE p

NameChars == Letters \cup Digits \cup {"_", "-"}

RECURSIVE NameEnd(_, _)
NameEnd(s, p) ==
  IF p < Len(s) /\ s[p + 1] \in NameChars THEN NameEnd(s, p + 1) ELSE p

\* re.match(r"([a-zA-Z0-9_\-]+)\s*=", s[p:]): the field name's end and the
\* position after "=", or ok = FALSE
MatchField(s, p) ==
  LET ne == NameEnd(s, p)
      eq == SkipSpace(s, ne)
  IN IF ne > p /\ eq < Len(s) /\ s[eq + 1] = "="
     THEN [ok |-> TRUE, nameEnd |-> ne, end |-> eq + 1]
     ELSE [ok |-> FALSE, nameEnd |-> p, end |-> p]

\* brace-delimited value: position after the loop that tracks the depth
RECURSIVE BraceValueEnd(_, _, _)
BraceValueEnd(s, p, depth) ==
  IF p < Len(s) /\ depth > 0
  THEN BraceValueEnd(s, p + 1,
                     IF s[p + 1] = "{" THEN depth + 1
                     ELSE IF s[p + 1] = "}" THEN depth - 1
                     ELSE depth)
  ELSE p

\* quote-delimited value: position of the quote that ends it (or len)
RECURSIVE QuoteValueEnd(_, _)
QuoteValueEnd(s, p) ==
  IF p < Len(s) /\ s[p + 1] # DQ THEN QuoteValueEnd(s, p + 1) ELSE p

\* bare value: position of the comma or newline that ends it (or len)
RECURSIVE BareValueEnd(_, _)
BareValueEnd(s, p) ==
  IF p < Len(s) /\ s[p + 1] \notin {",", "\n"}
  THEN BareValueEnd(s, p + 1)
  ELSE p

\* one iteration of the field loop, entered with p < len(body);
\* brk = TRUE when the iteration leaves the loop with a break
FieldIter(body, p, flds) ==
  LET p1 == SkipSeparators(body, p)
      m  == MatchField(body, p1)
      p2 == SkipSpace(body, m.end)
      name == Lower(Slice(body, p1, m.nameEnd))
  IN IF p1 >= Len(body) THEN [brk |-> TRUE, pos |-> p1, fields |-> flds]
     ELSE IF ~m.ok THEN [brk |-> TRUE, pos |-> p1, fields |-> flds]
     ELSE IF p2 >= Len(body) THEN [brk |-> TRUE, pos |-> p2, fields |-> flds]
     ELSE IF body[p2 + 1] = "{"
       THEN LET e == BraceValueEnd(body, p2 + 1, 1)
            IN [brk |-> FALSE, pos |-> e,
                fields |-> DictPut(flds, name, Strip(Slice(body, p2 + 1, e - 1)))]
     ELSE IF body[p2 + 1] = DQ
       THEN LET e == QuoteValueEnd(body, p2 + 1)
            IN [brk |-> FALSE, pos |-> e + 1,
                fields |-> DictPut(flds, name, Strip(Slice(body, p2 + 1, e)))]
     ELSE LET e == BareValueEnd(body, p2)
          IN [brk |-> FALSE, pos |-> e,
              fields |-> DictPut(flds, name, Strip(Strip(Slice(body, p2, e))))]

\* the whole field loop
RECURSIVE ParseFields(_, _, _)
ParseFields(body, p, flds) ==
  IF p < Len(body)
  THEN LET r == FieldIter(body, p, flds)
       IN IF r.brk THEN r.fields ELSE ParseFields(body, r.pos, r.fields)
  ELSE flds

\* the head of one iteration of the entry loop: locate "@", "{", "," and
\* the end of the entry; found = FALSE when one of the three breaks is taken
EntryScan(s, from) ==
  LET a == Find(s, "@", from)
      j == IF a = -1 THEN -1 ELSE Find(s, "{", a)
      k == IF j = -1 THEN -1 ELSE Find(s, ",", j)
      e == DepthScan(s, k + 1, 1)
  IN IF k = -1
     THEN [found |-> FALSE, at |-> a, idx |-> from, type |-> <<>>,
           key |-> <<>>, body |-> <<>>, raw |-> <<>>]
     ELSE [found |-> TRUE, at |-> a, idx |-> e,
           type |-> Lower(Strip(Slice(s, a + 1, j))),
           key |-> Strip(Slice(s, j + 1, k)),
           body |-> Strip(Slice(s, k + 1, e - 1)),
           raw |-> Slice(s, a, e)]

\* where the entry loop resumes after a record
NextEntryStart_restart(a, e) == a

NextEntryStart(a, e) == e

\* the function as a whole
RECURSIVE ParseFrom(_, _)
ParseFrom(s, from) ==
  LET r == EntryScan(s, from)
  IN IF ~r.found THEN <<>>
     ELSE <<[type |-> r.type, key |-> r.key,
             fields |-> ParseFields(r.body, 0, EmptyDict), raw |-> r.raw]>>
          \o ParseFrom(s, NextEntryStart(r.at, r.idx))

parse_bibtex_entries(s) == ParseFrom(s, 0)

\* ------------------------------------------------------------------------
\* latex_to_unicode
\* ------------------------------------------------------------------------
\* The Unicode letters of the table are written as one-character tokens
\* named after the letter ("u-uml" is the letter u with an umlaut).
LATEX_KEYS ==
  << <<BS, DQ, "a">>, <<BS, DQ, "o">>, <<BS, DQ, "u">>,
     <<BS, DQ, "A">>, <<BS, DQ, "O">>, <<BS, DQ, "U">>,
     <<BS, "'", "a">>, <<BS, "'", "e">>, <<BS, "'", "i">>,
     <<BS, "'", "o">>, <<BS, "'", "u">>,
     <<BS, GR, "a">>, <<BS, GR, "e">>, <<BS, GR, "i">>,
     <<BS, GR, "o">>, <<BS, GR, "u">>,
     <<BS, "^", "a">>, <<BS, "^", "e">>, <<BS, "^", "i">>,
     <<BS, "^", "o">>, <<BS, "^", "u">>,
     <<BS, "~", "n">>, <<BS, "s", "s">> >>

LATEX_VALUES ==
  << "a-uml", "o-uml", "u-uml", "A-uml", "O-uml", "U-uml",
     "a-acute", "e-acute", "i-acute", "o-acute", "u-acute",
     "a-grave", "e-grave", "i-grave", "o-grave", "u-grave",
     "a-circ", "e-circ", "i-circ", "o-circ", "u-circ",
     "n-tilde", "sharp-s" >>

\* LATEX_MAP.get(k, default): the replacement text of a key
LatexMapGet(k, default) ==
  IF \E n \in 1..Len(LATEX_KEYS) : LATEX_KEYS[n] = k
  THEN <<LATEX_VALUES[CHOOSE n \in 1..Len(LATEX_KEYS) : LATEX_KEYS[n] = k]>>
  ELSE default

Accents == {"'", GR, "^", DQ, "~"}

\* character at Python index p, or "" past the end
CharAt(s, p) == IF p >= 0 /\ p < Len(s) THEN s[p + 1] ELSE ""

RECURSIVE NonBraceEnd(_, _)
NonBraceEnd(s, p) ==
  IF p < Len(s) /\ s[p + 1] \notin {"{", "}"} THEN NonBraceEnd(s, p + 1) ELSE p

\* re.sub(r'\{(\\\\[^{}]+)\}', r'\1', text): the pattern asks for two
\* backslashes after the opening brace
RECURSIVE UnwrapCommands(_, _)
UnwrapCommands(s, p) ==
  IF p >= Len(s) THEN <<>>
  ELSE LET r == NonBraceEnd(s, p + 3)
       IN IF /\ s[p + 1] = "{"
             /\ CharAt(s, p + 1) = BS
             /\ CharAt(s, p + 2) = BS
             /\ r > p + 3
             /\ CharAt(s, r) = "}"
          THEN Slice(s, p + 1, r) \o UnwrapCommands(s, r + 1)
          ELSE <<s[p + 1]>> \o UnwrapCommands(s, p + 1)

\* the substitution that turns a brace-wrapped accented letter into the
\* accent command followed by the letter: its pattern asks for two
\* backslashes before the accent character
RECURSIVE UnwrapAccentLetter(_, _)
UnwrapAccentLetter(s, p) ==
  IF p >= Len(s) THEN <<>>
  ELSE IF /\ s[p + 1] = BS
          /\ CharAt(s, p + 1) = BS
          /\ CharAt(s, p + 2) \in Accents
          /\ CharAt(s, p + 3) = "{"
          /\ CharAt(s, p + 4) \in Letters
          /\ CharAt(s, p + 5) = "}"
       THEN <<BS, s[p + 3], s[p + 5]>> \o UnwrapAccentLetter(s, p + 6)
       ELSE <<s[p + 1]>> \o UnwrapAccentLetter(s, p + 1)

\* text.replace(k, v)
RECURSIVE StrReplace(_, _, _, _)
StrReplace(s, p, k, v) ==
  IF p >= Len(s) THEN <<>>
  ELSE IF p + Len(k) <= Len(s) /\ Slice(s, p, p + Len(k)) = k
       THEN v \o StrReplace(s, p + Len(k), k, v)
       ELSE <<s[p + 1]>> \o StrReplace(s, p + 1, k, v)

\* for key, value in LATEX_MAP.items(): text = text.replace(key, value)
RECURSIVE DirectReplacements(_, _)
DirectReplacements(s, n) ==
  IF n > Len(LATEX_KEYS) THEN s
  ELSE DirectReplacements(
         StrReplace(s, 0, LATEX_KEYS[n], <<LATEX_VALUES[n]>>), n + 1)

\* the substitution of backslash, accent character, letter by table lookup
\* (accent_repl, and again final_repl)
RECURSIVE AccentSub(_, _)
AccentSub(s, p) ==
  IF p >= Len(s) THEN <<>>
  ELSE IF /\ s[p + 1] = BS
          /\ CharAt(s, p + 1) \in Accents
          /\ CharAt(s, p + 2) \in Letters
       THEN LatexMapGet(Slice(s, p, p + 3), Slice(s, p, p + 3))
            \o AccentSub(s, p + 3)
       ELSE <<s[p + 1]>> \o AccentSub(s, p + 1)

\* length of the match of \\c\{?[A-Za-z]\}? at p, or 0
CedillaMatch(s, p) ==
  LET q == IF CharAt(s, p + 2) = "{" /\ CharAt(s, p + 3) \in Letters
           THEN p + 3 ELSE p + 2
  IN IF s[p + 1] = BS /\ CharAt(s, p + 1) = "c" /\ CharAt(s, q) \in Letters
     THEN (IF CharAt(s, q + 1) = "}" THEN q + 2 ELSE q + 1) - p
     ELSE 0

\* LATEX_PATTERN.sub(repl, text)
RECURSIVE LatexPatternSub(_, _)
LatexPatternSub(s, p) ==
  IF p >= Len(s) THEN <<>>
  ELSE IF /\ s[p + 1] = BS
          /\ CharAt(s, p + 1) \in Accents
          /\ CharAt(s, p + 2) \in Letters
       THEN LatexMapGet(Slice(s, p, p + 3), Slice(s, p, p + 3))
            \o LatexPatternSub(s, p + 3)
  ELSE IF s[p + 1] = BS /\ CharAt(s, p + 1) = "s" /\ CharAt(s, p + 2) = "s"
       THEN LatexMapGet(Slice(s, p, p + 3), Slice(s, p, p + 3))
            \o LatexPatternSub(s, p + 3)
  ELSE IF CedillaMatch(s, p) > 0
       THEN <<"c-cedilla">> \o LatexPatternSub(s, p + CedillaMatch(s, p))
  ELSE <<s[p + 1]>> \o LatexPatternSub(s, p + 1)

\* re.sub(r'\\\"([A-Za-z])', lambda ..., text)
RECURSIVE UmlautSub(_, _)
UmlautSub(s, p) ==
  IF p >= Len(s) THEN <<>>
  ELSE IF /\ s[p + 1] = BS
          /\ CharAt(s, p + 1) = DQ
          /\ CharAt(s, p + 2) \in Letters
       THEN LatexMapGet(Slice(s, p, p + 3), Slice(s, p, p + 3))
            \o UmlautSub(s, p + 3)
       ELSE <<s[p + 1]>> \o UmlautSub(s, p + 1)

\* text.replace("{", "").replace("}", "")
StripBraces(s) == SelectSeq(s, LAMBDA c : c \notin {"{", "}"})

latex_to_unicode(s) ==
  LET t1 == UnwrapCommands(s, 0)
      t2 == UnwrapAccentLetter(t1, 0)
      t3 == DirectReplacements(t2, 1)
      t4 == AccentSub(t3, 0)
      t5 == LatexPatternSub(t4, 0)
      t6 == AccentSub(t5, 0)
      t7 == UmlautSub(t6, 0)
      t8 == StripBraces(t7)
  IN StrReplace(t8, 0, <<BS, "&">>, <<"&">>)

\* ------------------------------------------------------------------------
\* field, esc, build_pubs_html
\* ------------------------------------------------------------------------
\* entry["fields"].get(name, "")
FieldGet(e, name) == IF name \in DOMAIN e.fields THEN e.fields[name] ELSE <<>>

YEAR == <<"y", "e", "a", "r">>
TITLE == <<"t", "i", "t", "l", "e">>

\* field(entry, name): normalised display text of a field
field(e, name) ==
  LET v1 == Strip(latex_to_unicode(FieldGet(e, name)))
      v2 == AccentSub(v1, 0)
  IN StrReplace(v2, 0, <<"-", "-">>, <<"en-dash">>)

\* html.escape(text, quote=True)
EscChar(c) ==
  CASE c = "&" -> <<"&", "a", "m", "p", ";">>
    [] c = "<" -> <<"&", "l", "t", ";">>
    [] c = ">" -> <<"&", "g", "t", ";">>
    [] c = DQ  -> <<"&", "q", "u", "o", "t", ";">>
    [] c = "'" -> <<"&", "#", "x", "2", "7", ";">>
    [] OTHER   -> <<c>>

esc(s) == Concat([n \in 1..Len(s) |-> EscChar(s[n])])

\* re.sub(r"\D", "", y)
DigitsOf(y) == SelectSeq(y, LAMBDA c : c \in Digits)

DigitSeq == <<"0","1","2","3","4","5","6","7","8","9">>
DigitValue(c) == (CHOOSE n \in 1..10 : DigitSeq[n] = c) - 1

\* int(d) for a string of digits
RECURSIVE IntOfDigits(_)
IntOfDigits(d) ==
  IF d = <<>> THEN 0
  ELSE 10 * IntOfDigits(SubSeq(d, 1, Len(d) - 1)) + DigitValue(d[Len(d)])

\* the sort key of a year heading: int(re.sub(r"\D", "", y) or 0)
NumericYear(y) == IntOfDigits(DigitsOf(y))

\* the first loop: the ordered dict by_year, as a sequence of
\* [year, items] in order of first appearance
RECURSIVE GroupByYear(_, _)
GroupByYear(es, acc) ==
  IF es = <<>> THEN acc
  ELSE LET e == Head(es)
           year == Strip(FieldGet(e, YEAR))
           hit == {n \in 1..Len(acc) : acc[n].year = year}
       IN IF year = <<>> THEN GroupByYear(Tail(es), acc)
          ELSE IF hit = {}
            THEN GroupByYear(Tail(es),
                             Append(acc, [year |-> year, items |-> <<e>>]))
          ELSE GroupByYear(Tail(es),
                 [n \in 1..Len(acc) |->
                    IF n \in hit
                    THEN [year |-> year, items |-> Append(acc[n].items, e)]
                    ELSE acc[n]])

\* put y behind every heading of out that sorts before it or equal to it
InsertYear_ascending(out, y) ==
  LET n == Cardinality({m \in 1..Len(out) :
                          NumericYear(out[m]) <= NumericYear(y)})
  IN SubSeq(out, 1, n) \o <<y>> \o SubSeq(out, n + 1, Len(out))

InsertYear(out, y) ==
  LET n == Cardinality({m \in 1..Len(out) :
                          NumericYear(out[m]) >= NumericYear(y)})
  IN SubSeq(out, 1, n) \o <<y>> \o SubSeq(out, n + 1, Len(out))

\* sorted(by_year.keys(), key=..., reverse=True): a stable sort, so headings
\* with equal keys keep their order of first appearance
RECURSIVE SortYears(_, _)
SortYears(ys, out) ==
  IF ys = <<>> THEN out ELSE SortYears(Tail(ys), InsertYear(out, Head(ys)))

\* re.sub(r"\n\s+", "\n  ", bib_raw)
RECURSIVE RenormIndent(_, _)
RenormIndent(s, p) ==
  IF p >= Len(s) THEN <<>>
  ELSE IF s[p + 1] = NL /\ CharAt(s, p + 1) \in Whitespace
       THEN <<NL, " ", " ">> \o RenormIndent(s, SkipSpace(s, p + 1))
       ELSE <<s[p + 1]>> \o RenormIndent(s, p + 1)

\* "\n".join(lines)
RECURSIVE JoinLines(_)
JoinLines(ls) ==
  IF ls = <<>> THEN <<>>
  ELSE IF Len(ls) = 1 THEN ls[1]
  ELSE ls[1] \o <<NL>> \o JoinLines(Tail(ls))

\* The markup of one record.  Fixed markup is written as one token per tag;
\* the author, venue, meta and link lines are left out (they add escaped
\* field text of the same kind as the title line).
PubItem(e) ==
  LET title == field(e, TITLE)
      bib_html == esc(RenormIndent(Strip(e.raw), 0))
      pieces ==
        (IF title # <<>>
         THEN << <<"<div class=pub-title>">> \o esc(title) \o <<"</div>">> >>
         ELSE <<>>)
        \o << <<"<div class=pub-links>", " ", "<button>", "<div class=bib-pop>",
                "<pre>">> \o bib_html \o <<"</pre>", "</div>", "</div>">> >>
  IN <<"<div class=pub-item>">> \o JoinLines(pieces) \o <<"</div>">>

\* the lines rendered for one year heading
YearLines(g) ==
  << <<"<details>">>,
     <<" ", " ", "<summary>">> \o esc(g.year) \o <<"</summary>">>,
     <<" ", " ", "<div class=pubyear>">> >>
  \o [n \in 1..Len(g.items) |-> PubItem(g.items[n])]
  \o << <<" ", " ", "</div>">>, <<"</details>">> >>

GroupOf(groups, y) == groups[CHOOSE n \in 1..Len(groups) : groups[n].year = y]

build_pubs_html(es) ==
  LET groups == GroupByYear(es, <<>>)
      ys == SortYears([n \in 1..Len(groups) |-> groups[n].year], <<>>)
  IN JoinLines(Concat([n \in 1..Len(ys) |-> YearLines(GroupOf(groups, ys[n]))]))

\* ------------------------------------------------------------------------
\* inject_pubs
\* ------------------------------------------------------------------------
\* The sentinel comments and the tags of the fallback container are single
\* tokens of the document: none of them can overlap itself or another one,
\* and escaped text never contains "<".
PUBS_START == "<!-- PUBS_START -->"
PUBS_END == "<!-- PUBS_END -->"
DIV_PUBS == "<div class=pubs>"
DIV_CLOSE == "</div>"
HEADER_CLOSE == "</header>"

OctDigits == {"0","1","2","3","4","5","6","7"}

\* the escapes a replacement template turns into one character
TemplateEscapes == {"a", "b", "f", "n", "r", "t", "v", BS}

TemplateEscapeChar(c) ==
  CASE c = "n" -> NL
    [] c = "t" -> "\t"
    [] c = "r" -> "\r"
    [] c = "f" -> "\f"
    [] c = BS  -> BS
    [] c = "a" -> "bell"
    [] c = "b" -> "backspace"
    [] OTHER   -> "vtab"

\* number of characters of the template an escape at p takes up
\* (backslash included), or 0 when the template is rejected there
EscapeLen(t, p, ngroups) ==
  LET c  == CharAt(t, p + 1)
      c2 == CharAt(t, p + 2)
      c3 == CharAt(t, p + 3)
  IN IF c = "" THEN 0
     ELSE IF c = "g" THEN 0
     ELSE IF c = "0"
       THEN (IF c2 \in OctDigits THEN (IF c3 \in OctDigits THEN 4 ELSE 3)
             ELSE 2)
     ELSE IF c \in Digits
       THEN (IF c2 \in Digits
             THEN (IF c \in OctDigits /\ c2 \in OctDigits /\ c3 \in OctDigits
                   THEN (IF IntOfDigits(<<c>>) <= 3 THEN 4 ELSE 0)
                   ELSE (IF IntOfDigits(<<c, c2>>) <= ngroups THEN 3 ELSE 0))
             ELSE (IF IntOfDigits(<<c>>) <= ngroups THEN 2 ELSE 0))
     ELSE IF c \in TemplateEscapes THEN 2
     ELSE IF c \in Letters THEN 0
     ELSE 2

\* what an accepted escape at p stands for
EscapeText(t, p, groups) ==
  LET c  == CharAt(t, p + 1)
      n  == EscapeLen(t, p, Len(groups))
  IN IF c = "0" \/ n = 4 THEN <<"octal-char">>
     ELSE IF c \in Digits THEN groups[IntOfDigits(Slice(t, p + 1, p + n))]
     ELSE IF c \in TemplateEscapes THEN <<TemplateEscapeChar(c)>>
     ELSE <<BS, c>>

\* the template is accepted: every backslash starts a valid escape
RECURSIVE TemplateOK(_, _, _)
TemplateOK(t, p, ngroups) ==
  IF p >= Len(t) THEN TRUE
  ELSE IF t[p + 1] # BS THEN TemplateOK(t, p + 1, ngroups)
  ELSE /\ EscapeLen(t, p, ngroups) > 0
       /\ TemplateOK(t, p + EscapeLen(t, p, ngroups), ngroups)

\* the expansion of an accepted template for one match
RECURSIVE ExpandTemplate(_, _, _)
ExpandTemplate(t, p, groups) ==
  IF p >= Len(t) THEN <<>>
  ELSE IF t[p + 1] = BS
       THEN EscapeText(t, p, groups)
            \o ExpandTemplate(t, p + EscapeLen(t, p, Len(groups)), groups)
       ELSE <<t[p + 1]>> \o ExpandTemplate(t, p + 1, groups)

\* re.sub(r"(<!-- PUBS_START -->)(.*?)(<!-- PUBS_END -->)", template, s,
\* flags=re.S): every leftmost shortest span from a start marker to the next
\* end marker is replaced
RECURSIVE SubMarkers(_, _, _)
SubMarkers(s, p, t) ==
  IF p >= Len(s) THEN <<>>
  ELSE LET e == Find(s, PUBS_END, p + 1)
       IN IF s[p + 1] = PUBS_START /\ e # -1
          THEN ExpandTemplate(t, 0, << <<PUBS_START>>, Slice(s, p + 1, e),
                                       <<PUBS_END>> >>)
               \o SubMarkers(s, e + 1, t)
          ELSE <<s[p + 1]>> \o SubMarkers(s, p + 1, t)

\* end of a match of </div>\s*</div>\s*</div>\s*</header> at p, or -1
TailMatchEnd(s, p) ==
  LET d2 == SkipSpace(s, p + 1)
      d3 == SkipSpace(s, d2 + 1)
      h  == SkipSpace(s, d3 + 1)
  IN IF /\ CharAt(s, p) = DIV_CLOSE
        /\ CharAt(s, d2) = DIV_CLOSE
        /\ CharAt(s, d3) = DIV_CLOSE
        /\ CharAt(s, h) = HEADER_CLOSE
     THEN h + 1 ELSE -1

\* re.sub(r'(<div class="pubs">).*?(</div>\s*</div>\s*</div>\s*</header>)',
\* template, s, flags=re.S)
RECURSIVE SubContainer(_, _, _)
SubContainer(s, p, t) ==
  IF p >= Len(s) THEN <<>>
  ELSE LET starts == {q \in (p + 1)..(Len(s) - 1) : TailMatchEnd(s, q) # -1}
           q == IF starts = {} THEN -1 ELSE Min(starts)
       IN IF s[p + 1] = DIV_PUBS /\ q # -1
          THEN ExpandTemplate(t, 0, << <<DIV_PUBS>>,
                                       Slice(s, q, TailMatchEnd(s, q)) >>)
               \o SubContainer(s, TailMatchEnd(s, q), t)
          ELSE <<s[p + 1]>> \o SubContainer(s, p + 1, t)

HasMarkers(s) ==
  (\E n \in 1..Len(s) : s[n] = PUBS_START) /\ (\E n \in 1..Len(s) : s[n] = PUBS_END)

\* inject_pubs(html_text, pubs_html): ok = FALSE when re.sub raises re.error
inject_pubs(doc, frag) ==
  IF HasMarkers(doc)
  THEN LET t == <<BS, "1", BS, "n">> \o frag \o <<BS, "n", BS, "3">>
       IN IF TemplateOK(t, 0, 3)
          THEN [ok |-> TRUE, val |-> SubMarkers(doc, 0, t)]
          ELSE [ok |-> FALSE, val |-> <<>>]
  ELSE LET t == <<BS, "1", BS, "n">> \o frag \o <<BS, "n", BS, "2">>
       IN IF TemplateOK(t, 0, 2)
          THEN [ok |-> TRUE, val |-> SubContainer(doc, 0, t)]
          ELSE [ok |-> FALSE, val |-> <<>>]

\* ------------------------------------------------------------------------
\* build_all_bib
\* ------------------------------------------------------------------------
\* printable ASCII in code point order (the grave accent is the token GR)
AsciiOrder ==
  <<" ", "!", DQ, "#", "$", "%", "&", "'", "(", ")", "*", "+", ",", "-", ".",
    "/", "0", "1", "2", "3", "4", "5", "6", "7", "8", "9", ":", ";", "<", "=",
    ">", "?", "@", "A", "B", "C", "D", "E", "F", "G", "H", "I", "J", "K", "L",
    "M", "N", "O", "P", "Q", "R", "S", "T", "U", "V", "W", "X", "Y", "Z", "[",
    BS, "]", "^", "_", GR, "a", "b", "c", "d", "e", "f", "g", "h", "i", "j",
    "k", "l", "m", "n", "o", "p", "q", "r", "s", "t", "u", "v", "w", "x", "y",
    "z", "{", "|", "}", "~">>

CodePoint(c) == CHOOSE n \in 1..Len(AsciiOrder) : AsciiOrder[n] = c

\* a < b for two strings
RECURSIVE StrLess(_, _)
StrLess(a, b) ==
  IF b = <<>> THEN FALSE
  ELSE IF a = <<>> THEN TRUE
  ELSE IF a[1] = b[1] THEN StrLess(Tail(a), Tail(b))
  ELSE CodePoint(a[1]) < CodePoint(b[1])

\* int(s) accepts an optional sign and digits with single underscores
\* between them
IntLiteralOK(s) ==
  LET d == IF s # <<>> /\ s[1] \in {"+", "-"} THEN Tail(s) ELSE s
  IN /\ d # <<>>
     /\ \A n \in 1..Len(d) : d[n] \in Digits \cup {"_"}
     /\ d[1] \in Digits /\ d[Len(d)] \in Digits
     /\ \A n \in 1..(Len(d) - 1) : ~(d[n] = "_" /\ d[n + 1] = "_")

IntLiteral(s) ==
  IF s[1] = "-" THEN 0 - IntOfDigits(DigitsOf(s)) ELSE IntOfDigits(DigitsOf(s))

\* year_key(e): the pattern r"\\D" removes a backslash followed by "D";
\* ok = FALSE when int() raises ValueError
year_key(e) ==
  LET y == Strip(FieldGet(e, YEAR))
      d == StrReplace(y, 0, <<BS, "D">>, <<>>)
  IN IF d = <<>> THEN [ok |-> TRUE, val |-> 0]
     ELSE IF IntLiteralOK(d) THEN [ok |-> TRUE, val |-> IntLiteral(d)]
     ELSE [ok |-> FALSE, val |-> 0]

\* the sort key (-year_key(e), e["key"]) of a sorts before that of b
EntryLess(a, b) ==
  \/ year_key(a).val > year_key(b).val
  \/ year_key(a).val = year_key(b).val /\ StrLess(a.key, b.key)

InsertEntry(out, e) ==
  LET n == Cardinality({m \in 1..Len(out) : ~EntryLess(e, out[m])})
  IN SubSeq(out, 1, n) \o <<e>> \o SubSeq(out, n + 1, Len(out))

\* entries.sort(key=...): a stable sort
RECURSIVE SortEntries(_, _)
SortEntries(es, out) ==
  IF es = <<>> THEN out ELSE SortEntries(Tail(es), InsertEntry(out, Head(es)))

\* "\n\n".join(raw.strip() for each entry) + "\n"
RECURSIVE JoinRaw(_)
JoinRaw(es) ==
  IF es = <<>> THEN <<>>
  ELSE IF Len(es) = 1 THEN Strip(es[1].raw)
  ELSE Strip(es[1].raw) \o <<NL, NL>> \o JoinRaw(Tail(es))

\* the names a directory listing can hold, in sorted order
FileNames == <<"a.bib", "all.bib", "b.bib">>

\* sorted(p for p in BIB_DIR.glob("*.bib")
\*        if p.name not in {"all.bib", "all.pub"})
SourceFiles(dir) ==
  SelectSeq(FileNames, LAMBDA f : f \in DOMAIN dir /\ f \notin {"all.bib", "all.pub"})

\* build_all_bib(): status is "ok", "SystemExit" or "ValueError"
build_all_bib(dir) ==
  LET files == SourceFiles(dir)
      es == Concat([n \in 1..Len(files) |-> parse_bibtex_entries(dir[files[n]])])
  IN IF files = <<>> THEN [status |-> "SystemExit", val |-> <<>>]
     ELSE IF \E n \in 1..Len(es) : ~year_key(es[n]).ok
       THEN [status |-> "ValueError", val |-> <<>>]
     ELSE [status |-> "ok", val |-> JoinRaw(SortEntries(es, <<>>)) \o <<NL>>]

\* ------------------------------------------------------------------------
\* Runs of parse_bibtex_entries
\* ------------------------------------------------------------------------
\* the values of the variables a run does not use
NormIdle == text = <<>> /\ once = <<>> /\ twice = <<>>
RenderIdle == by_year = <<>> /\ years = <<>> /\ pubs_html = <<>>
NoResult == [ok |-> TRUE, val |-> <<>>]
InjectIdle == html_text = <<>> /\ new_html = NoResult /\ rerun_html = NoResult
MainIdle ==
  /\ dir_exists = TRUE
  /\ bib_dir = EmptyDict
  /\ index_html = <<>>
  /\ all_bib = <<>>
  /\ exit_status = "running"

\* Inputs: texts put together from at most MaxPieces pieces of entry
\* structure, and one entry "@a{k," body "}" whose body is put together
\* from at most MaxBodyPieces pieces of field syntax.
EntryHead == <<"@", "a", "{", "k", ",">>

StructurePieces ==
  {EntryHead, <<"@">>, <<"{">>, <<"}">>, <<",">>, <<"a">>}

BodyPieces ==
  {<<"a", "=">>, <<DQ>>, <<BS, DQ>>, <<"{">>, <<"}">>, <<",">>, <<"a">>,
   <<" ">>}

ParseInputs ==
  {Concat(ps) : ps \in SeqsUpTo(StructurePieces, MaxPieces)}
  \cup {EntryHead \o Concat(ps) \o <<"}">> :
          ps \in SeqsUpTo(BodyPieces, MaxBodyPieces)}

ParseLocalsStart ==
  /\ i = 0
  /\ at = -1
  /\ idx = 0
  /\ entry_type = <<>>
  /\ key = <<>>
  /\ entry_body = <<>>
  /\ raw_entry = <<>>
  /\ fields = EmptyDict
  /\ pos = 0

InitParse ==
  /\ pc = "entry"
  /\ bib \in ParseInputs
  /\ entries = <<>>
  /\ ParseLocalsStart
  /\ NormIdle /\ RenderIdle /\ InjectIdle /\ MainIdle

\* top of the entry loop up to the start of the field loop
ScanEntry ==
  /\ pc = "entry"
  /\ LET r == EntryScan(bib, i)
     IN /\ at' = r.at
        /\ IF r.found
           THEN /\ idx' = r.idx
                /\ entry_type' = r.type
                /\ key' = r.key
                /\ entry_body' = r.body
                /\ raw_entry' = r.raw
                /\ fields' = EmptyDict
                /\ pos' = 0
                /\ pc' = "field"
           ELSE /\ pc' = "done"
                /\ UNCHANGED <<idx, entry_type, key, entry_body, raw_entry,
                               fields, pos>>
  /\ UNCHANGED <<bib, i, entries>>
  /\ UNCHANGED <<pubs_html, normVars, renderVars, injectVars, mainVars>>

\* one iteration of the field loop
FieldStep ==
  /\ pc = "field"
  /\ pos < Len(entry_body)
  /\ LET r == FieldIter(entry_body, pos, fields)
     IN /\ pos' = r.pos
        /\ fields' = r.fields
        /\ pc' = IF r.brk THEN "append" ELSE "field"
  /\ UNCHANGED <<bib, i, entries, at, idx, entry_type, key, entry_body,
                 raw_entry>>
  /\ UNCHANGED <<pubs_html, normVars, renderVars, injectVars, mainVars>>

\* the field loop is over: append the record and move on
AppendEntry ==
  /\ \/ pc = "append"
     \/ pc = "field" /\ pos >= Len(entry_body)
  /\ entries' = Append(entries, [type |-> entry_type, key |-> key,
                                 fields |-> fields, raw |-> raw_entry])
  /\ i' = NextEntryStart(at, idx)
  /\ pc' = "entry"
  /\ UNCHANGED <<bib, at, idx, entry_type, key, entry_body, raw_entry,
                 fields, pos>>
  /\ UNCHANGED <<pubs_html, normVars, renderVars, injectVars, mainVars>>

NextParse == ScanEntry \/ FieldStep \/ AppendEntry

SpecParse == InitParse /\ [][NextParse]_vars


ParseIdle == bib = <<>> /\ ParseLocalsStart

\* ------------------------------------------------------------------------
\* Runs of latex_to_unicode
\* ------------------------------------------------------------------------
MaxTextLen == 5

NormChars == {BS, DQ, "{", "}", "&", "u", "c", "s"}

InitNorm ==
  /\ pc = "normalize"
  /\ text \in SeqsUpTo(NormChars, MaxTextLen)
  /\ once = <<>> /\ twice = <<>>
  /\ entries = <<>>
  /\ ParseIdle /\ RenderIdle /\ InjectIdle /\ MainIdle

\* latex_to_unicode(text)
Normalize ==
  /\ pc = "normalize"
  /\ once' = latex_to_unicode(text)
  /\ pc' = "normalized"
  /\ UNCHANGED <<text, twice, entries, pubs_html, parseLocals, renderVars,
                 injectVars, mainVars>>

\* latex_to_unicode applied to its own result
NormalizeAgain ==
  /\ pc = "normalized"
  /\ twice' = latex_to_unicode(once)
  /\ pc' = "renormalized"
  /\ UNCHANGED <<text, once, entries, pubs_html, parseLocals, renderVars,
                 injectVars, mainVars>>

NextNorm == Normalize \/ NormalizeAgain

SpecNorm == InitNorm /\ [][NextNorm]_vars

\* ------------------------------------------------------------------------
\* Runs of build_pubs_html
\* ------------------------------------------------------------------------
MaxEntries == 3

\* year values as the parser stores them (trimmed): two plain years, a year
\* with a letter, a year without digits, an empty value
YearValues ==
  {<<"2", "1">>, <<"1", "9">>, <<"2", "1", "a">>, <<"a">>, <<>>}

\* the fields of a record: with one of the year values, or without a year
FieldSets ==
  {(YEAR :> y) : y \in YearValues} \cup {EmptyDict}

RecordKeys == <<"k1", "k2", "k3", "k4", "k5">>

\* records with distinct keys; the raw text of record n is "@" and its key
RenderInputs ==
  {[n \in 1..Len(fs) |-> [type |-> <<"a">>, key |-> <<RecordKeys[n]>>,
                          fields |-> fs[n], raw |-> <<"@", RecordKeys[n]>>]] :
     fs \in SeqsUpTo(FieldSets, MaxEntries)}

InitRender ==
  /\ pc = "render"
  /\ entries \in RenderInputs
  /\ RenderIdle
  /\ ParseIdle /\ NormIdle /\ InjectIdle /\ MainIdle

\* build_pubs_html(entries)
BuildPubsHtml ==
  /\ pc = "render"
  /\ by_year' = GroupByYear(entries, <<>>)
  /\ years' = SortYears([n \in 1..Len(by_year') |-> by_year'[n].year], <<>>)
  /\ pubs_html' = build_pubs_html(entries)
  /\ pc' = "rendered"
  /\ UNCHANGED <<entries, parseLocals, normVars, injectVars, mainVars>>

NextRender == BuildPubsHtml

SpecRender == InitRender /\ [][NextRender]_vars

\* ------------------------------------------------------------------------
\* Runs of inject_pubs
\* ------------------------------------------------------------------------
MaxDocPieces == 3
MaxRawLen == 3

\* the end of the fallback container, with white space between two tags
ContainerTail == <<DIV_CLOSE, DIV_CLOSE, " ", DIV_CLOSE, HEADER_CLOSE>>

DocPieces ==
  {<<PUBS_START>>, <<PUBS_END>>, <<DIV_PUBS>>, ContainerTail, <<DIV_CLOSE>>,
   <<"x">>}

Documents == {Concat(ps) : ps \in SeqsUpTo(DocPieces, MaxDocPieces)}

\* the text of a source entry after its "@"
RawChars == {BS, "2", "n", "s", "&"}

\* the corpus behind a fragment: no record, or one record of the year 21
\* whose source text is "@" and up to MaxRawLen characters
FragmentEntries ==
  {<<>>} \cup
  {<<[type |-> <<"a">>, key |-> <<"k">>, fields |-> (YEAR :> <<"2", "1">>),
      raw |-> <<"@">> \o w]>> : w \in SeqsUpTo(RawChars, MaxRawLen)}

InitInject ==
  /\ pc = "inject"
  /\ entries \in FragmentEntries
  /\ pubs_html = build_pubs_html(entries)
  /\ html_text \in Documents
  /\ new_html = NoResult /\ rerun_html = NoResult
  /\ by_year = <<>> /\ years = <<>>
  /\ ParseIdle /\ NormIdle /\ MainIdle

\* inject_pubs(html_text, pubs_html)
Inject ==
  /\ pc = "inject"
  /\ new_html' = inject_pubs(html_text, pubs_html)
  /\ pc' = IF new_html'.ok THEN "injected" ELSE "failed"
  /\ UNCHANGED <<html_text, rerun_html, entries, pubs_html, parseLocals,
                 normVars, renderVars, mainVars>>

\* the next run of the tool: inject_pubs(new_html, pubs_html)
InjectAgain ==
  /\ pc = "injected"
  /\ rerun_html' = inject_pubs(new_html.val, pubs_html)
  /\ pc' = IF rerun_html'.ok THEN "reinjected" ELSE "failed"
  /\ UNCHANGED <<html_text, new_html, entries, pubs_html, parseLocals,
                 normVars, renderVars, mainVars>>

NextInject == Inject \/ InjectAgain

SpecInject == InitInject /\ [][NextInject]_vars

\* ------------------------------------------------------------------------
\* Runs of main
\* ------------------------------------------------------------------------
MaxFileEntries == 1

\* source entries: a plain one, one with a letter in its year, one with a
\* TeX command in a value, one cut short before its comma, one without year
SampleEntries ==
  { <<"@","a","{","k",",","y","e","a","r","=","2","1","}">>,
    <<"@","a","{","j",",","y","e","a","r","=","2","a","}">>,
    <<"@","b","{","m",",","y","e","a","r","=","9",",","t","=",BS,"s","}">>,
    <<"@","a","{","n">>,
    <<"@","a","{","p",",","t","=","a","}">> }

FileTexts == {Concat(es) : es \in SeqsUpTo(SampleEntries, MaxFileEntries)}

Directories ==
  UNION {[names -> FileTexts] : names \in SUBSET {"a.bib", "all.bib", "b.bib"}}

IndexPages ==
  { <<"x", PUBS_START, "x", PUBS_END, "x">>,
    <<"x", DIV_PUBS, "x">> \o ContainerTail \o <<"x">>,
    <<"x">> }

InitMain ==
  /\ pc = "main"
  /\ dir_exists \in BOOLEAN
  /\ bib_dir \in IF dir_exists THEN Directories ELSE {EmptyDict}
  /\ index_html \in IndexPages
  /\ all_bib = <<>>
  /\ exit_status = "running"
  /\ entries = <<>>
  /\ ParseIdle /\ NormIdle /\ RenderIdle /\ InjectIdle

\* if not BIB_DIR.exists(): raise SystemExit
CheckDir ==
  /\ pc = "main"
  /\ IF dir_exists
     THEN pc' = "build" /\ UNCHANGED exit_status
     ELSE pc' = "exit" /\ exit_status' = "SystemExit"
  /\ UNCHANGED <<dir_exists, bib_dir, index_html, all_bib, entries, pubs_html,
                 parseLocals, normVars, renderVars, injectVars>>

\* all_bib = build_all_bib()
BuildAllBib ==
  /\ pc = "build"
  /\ LET r == build_all_bib(bib_dir)
     IN IF r.status = "ok"
        THEN all_bib' = r.val /\ pc' = "write" /\ UNCHANGED exit_status
        ELSE exit_status' = r.status /\ pc' = "exit" /\ UNCHANGED all_bib
  /\ UNCHANGED <<dir_exists, bib_dir, index_html, entries, pubs_html,
                 parseLocals, normVars, renderVars, injectVars>>

\* the two write_text calls for all.pub and all.bib
WriteAggregates ==
  /\ pc = "write"
  /\ bib_dir' = DictPut(DictPut(bib_dir, "all.pub", all_bib), "all.bib", all_bib)
  /\ pc' = "render"
  /\ UNCHANGED <<dir_exists, index_html, all_bib, exit_status, entries,
                 pubs_html, parseLocals, normVars, renderVars, injectVars>>

\* entries = parse_bibtex_entries(all_bib); pubs_html = build_pubs_html(entries)
RenderAll ==
  /\ pc = "render"
  /\ entries' = parse_bibtex_entries(all_bib)
  /\ by_year' = GroupByYear(entries', <<>>)
  /\ years' = SortYears([n \in 1..Len(by_year') |-> by_year'[n].year], <<>>)
  /\ pubs_html' = build_pubs_html(entries')
  /\ pc' = "inject"
  /\ UNCHANGED <<parseLocals, normVars, injectVars, mainVars>>

\* read index.html, inject, write index.html
InjectIndex ==
  /\ pc = "inject"
  /\ html_text' = index_html
  /\ LET r == inject_pubs(index_html, pubs_html)
     IN IF r.ok
        THEN /\ new_html' = r
             /\ index_html' = r.val
             /\ pc' = "print"
             /\ UNCHANGED exit_status
        ELSE /\ exit_status' = "re.error"
             /\ pc' = "exit"
             /\ UNCHANGED <<new_html, index_html>>
  /\ UNCHANGED <<rerun_html, dir_exists, bib_dir, all_bib, entries, pubs_html,
                 parseLocals, normVars, renderVars>>

\* print the completion message and return
PrintDone ==
  /\ pc = "print"
  /\ exit_status' = "ok"
  /\ pc' = "exit"
  /\ UNCHANGED <<dir_exists, bib_dir, index_html, all_bib, entries, pubs_html,
                 parseLocals, normVars, renderVars, injectVars>>

NextMain ==
  CheckDir \/ BuildAllBib \/ WriteAggregates \/ RenderAll \/ InjectIndex
  \/ PrintDone

SpecMain == InitMain /\ [][NextMain]_vars

\* ------------------------------------------------------------------------
\* Properties of parse_bibtex_entries
\* ------------------------------------------------------------------------

\* a natural number that bounds the steps the parser has left: the text
\* still to scan counts most, then the phase, then the body still to scan
ParserMeasure ==
  (Len(bib) - i) * (Len(bib) + 4)
  + (CASE pc = "entry"  -> Len(bib) + 3
       [] pc = "field"  -> IF pos < Len(entry_body)
                           THEN Len(entry_body) - pos + 1 ELSE 1
       [] pc = "append" -> 1
       [] OTHER         -> 0)

\* C6: the parser terminates on every input and both loops make strict
\* progress: every step strictly decreases the natural number ParserMeasure
\* (so no run is infinite), an iteration of the field loop that stays in the
\* loop moves pos forward, and every appended record moves the scan position
\* i forward, never past the end of the text.
C6_TerminatesWithProgress ==
  [][/\ ParserMeasure' < ParserMeasure
     /\ ParserMeasure' >= 0
     /\ (pc = "field" /\ pc' = "field") => pos' > pos
     /\ (entries' # entries) => (i' > i /\ i' <= Len(bib))]_vars

\* a finished run over a malformed text: a record was produced although the
\* entry's braces never closed (the depth loop ran off the end of the text)
C6_Witness ==
  /\ pc = "done"
  /\ Len(entries) >= 1
  /\ idx = Len(bib)
  /\ bib[Len(bib)] # "}"

\* C7: every record has a non-empty type and a non-empty key.
C7_NonEmptyTypeAndKey ==
  \A n \in 1..Len(entries) :
    entries[n].type # <<>> /\ entries[n].key # <<>>

\* number of occurrences of c in s at Python indices lo..hi
Count(s, c, lo, hi) == Cardinality({n \in lo..hi : s[n + 1] = c})

\* the text has a well-formed entry @TYPE{KEY, ...} whose "@" is at a and
\* whose matching closing brace is at e: a non-empty type of letters, a
\* non-empty key of letters and digits, and a body with balanced braces
WellFormedEntry(s, a, e) ==
  /\ 0 <= a /\ e < Len(s)
  /\ s[a + 1] = "@"
  /\ s[e + 1] = "}"
  /\ \E j \in (a + 2)..(e - 3) : \E k \in (j + 2)..(e - 1) :
       /\ s[j + 1] = "{"
       /\ s[k + 1] = ","
       /\ \A n \in (a + 1)..(j - 1) : s[n + 1] \in Letters
       /\ \A n \in (j + 1)..(k - 1) : s[n + 1] \in Letters \cup Digits
       /\ Count(s, "{", k + 1, e - 1) = Count(s, "}", k + 1, e - 1)
       /\ \A n \in (k + 1)..(e - 1) :
            Count(s, "{", k + 1, n) >= Count(s, "}", k + 1, n)

\* C8 as stated: every well-formed entry of the text is the raw span of a
\* record of the result.
C8_EveryWellFormedEntryIsRaw ==
  pc = "done" =>
    \A a \in 0..(Len(bib) - 1) : \A e \in a..(Len(bib) - 1) :
      WellFormedEntry(bib, a, e) =>
        \E n \in 1..Len(entries) : entries[n].raw = Slice(bib, a, e + 1)

\* C8 amended: when the record just appended was scanned from a "@" that
\* starts a well-formed entry, its raw is exactly the span from that "@"
\* through the matching closing brace, and the scan resumes right after it.
C8_RawIsEntrySpan ==
  (pc = "entry" /\ entries # <<>>) =>
    \A e \in at..(Len(bib) - 1) :
      WellFormedEntry(bib, at, e) =>
        /\ entries[Len(entries)].raw = Slice(bib, at, e + 1)
        /\ i = e + 1

\* a record of a well-formed entry with a nested brace group in its body
\* and more text after its closing brace
C8_Witness ==
  /\ pc = "entry" /\ entries # <<>>
  /\ \E e \in at..(Len(bib) - 2) :
       /\ WellFormedEntry(bib, at, e)
       /\ Count(bib, "{", at, e) >= 2
       /\ entries[Len(entries)].raw = Slice(bib, at, e + 1)

\* position of the first double quote at or after p that is not escaped
\* by a backslash, or -1
RECURSIVE UnescapedQuote(_, _)
UnescapedQuote(s, p) ==
  IF p >= Len(s) THEN -1
  ELSE IF s[p + 1] = BS THEN UnescapedQuote(s, p + 2)
  ELSE IF s[p + 1] = DQ THEN p
  ELSE UnescapedQuote(s, p + 1)

\* C9: an iteration of the field loop that meets a quote-delimited value
\* stores the trimmed text up to the next unescaped double quote and
\* resumes right after that quote.
C9_QuotedValueToUnescapedQuote ==
  [][(pc = "field" /\ pos < Len(entry_body)) =>
       LET p1 == SkipSeparators(entry_body, pos)
           m  == MatchField(entry_body, p1)
           p2 == SkipSpace(entry_body, m.end)
           q  == UnescapedQuote(entry_body, p2 + 1)
           name == Lower(Slice(entry_body, p1, m.nameEnd))
       IN (m.ok /\ p2 < Len(entry_body) /\ entry_body[p2 + 1] = DQ /\ q # -1)
          => /\ name \in DOMAIN fields'
             /\ fields'[name] = Strip(Slice(entry_body, p2 + 1, q))
             /\ pos' = q + 1]_vars

\* ------------------------------------------------------------------------
\* Properties of latex_to_unicode
\* ------------------------------------------------------------------------

\* C4: normalising the result again changes nothing.
C4_Idempotent == pc = "renormalized" => twice = once

RECURSIVE LetterRunEnd(_, _)
LetterRunEnd(s, p) ==
  IF p < Len(s) /\ s[p + 1] \in Letters THEN LetterRunEnd(s, p + 1) ELSE p

\* the text of the escape command that starts at p when it is none of the
\* recognised ones, else the empty text: a backslash (not itself escaped by
\* a backslash) with a command name of letters other than ss and c, or with
\* an accent character and a letter that the table does not hold
UnrecognizedCommand(s, p) ==
  LET e == LetterRunEnd(s, p + 1)
  IN IF s[p + 1] # BS \/ CharAt(s, p - 1) = BS THEN <<>>
     ELSE IF e > p + 1
       THEN (IF Slice(s, p + 1, e) \in {<<"s", "s">>, <<"c">>}
             THEN <<>> ELSE Slice(s, p, e))
     ELSE IF CharAt(s, p + 1) \in Accents /\ CharAt(s, p + 2) \in Letters
       THEN (IF LatexMapGet(Slice(s, p, p + 3), <<>>) = <<>>
             THEN Slice(s, p, p + 3) ELSE <<>>)
     ELSE <<>>

\* C5: the umlaut-u escape of the input comes out as the letter u with an
\* umlaut, and every escape command of the input that is not a recognised
\* one is found in the output character for character.
C5_RecognizedReplacedOthersKept ==
  pc = "normalized" =>
    /\ Contains(text, <<BS, DQ, "u">>) => Contains(once, <<"u-uml">>)
    /\ \A p \in 0..(Len(text) - 1) :
         Contains(once, UnrecognizedCommand(text, p))

\* ------------------------------------------------------------------------
\* Properties of build_pubs_html
\* ------------------------------------------------------------------------
HasYear(e) == YEAR \in DOMAIN e.fields /\ e.fields[YEAR] # <<>>

KeyTokens == {RecordKeys[n] : n \in 1..Len(RecordKeys)}

\* the year headings of a fragment with the keys of the records shown under
\* each, in the order of the fragment
RECURSIVE RenderedGroups(_, _, _)
RenderedGroups(h, p, acc) ==
  IF p >= Len(h) THEN acc
  ELSE IF h[p + 1] = "<summary>"
    THEN LET e == Find(h, "</summary>", p)
         IN RenderedGroups(h, e + 1,
              Append(acc, [year |-> Slice(h, p + 1, e), keys |-> <<>>]))
  ELSE IF h[p + 1] \in KeyTokens
    THEN RenderedGroups(h, p + 1,
           [n \in 1..Len(acc) |->
              IF n = Len(acc)
              THEN [year |-> acc[n].year, keys |-> Append(acc[n].keys, h[p + 1])]
              ELSE acc[n]])
  ELSE RenderedGroups(h, p + 1, acc)

KeysOf(es) == [n \in 1..Len(es) |-> es[n].key[1]]

\* C1: the fragment shows exactly the records with a non-empty year, one
\* group per year value, the groups in descending order of the numeric year
\* (digits of the year, zero without digits), and the records of a group in
\* their order in the input.
C1_GroupedByYearDescending ==
  pc = "rendered" =>
    LET g == RenderedGroups(pubs_html, 0, <<>>)
    IN /\ \A a, b \in 1..Len(g) :
            a < b => /\ NumericYear(g[a].year) >= NumericYear(g[b].year)
                     /\ g[a].year # g[b].year
       /\ \A a \in 1..Len(g) :
            /\ g[a].keys # <<>>
            /\ g[a].keys =
                 KeysOf(SelectSeq(entries,
                          LAMBDA e : HasYear(e) /\ e.fields[YEAR] = g[a].year))
       /\ \A n \in 1..Len(entries) :
            HasYear(entries[n]) <=>
              \E a \in 1..Len(g) : \E m \in 1..Len(g[a].keys) :
                g[a].keys[m] = entries[n].key[1]

\* the years 21, 19, 21 are rendered as the group 21 with the first and the
\* third record followed by the group 19 with the second
C1_Witness ==
  /\ pc = "rendered"
  /\ Len(entries) = 3
  /\ \A n \in 1..3 : HasYear(entries[n])
  /\ entries[1].fields[YEAR] = <<"2", "1">>
  /\ entries[2].fields[YEAR] = <<"1", "9">>
  /\ entries[3].fields[YEAR] = <<"2", "1">>
  /\ RenderedGroups(pubs_html, 0, <<>>) =
       << [year |-> <<"2", "1">>, keys |-> <<"k1", "k3">>],
          [year |-> <<"1", "9">>, keys |-> <<"k2">>] >>

\* ------------------------------------------------------------------------
\* Properties of inject_pubs
\* ------------------------------------------------------------------------
Occurrences(s, c) == {n \in 0..(Len(s) - 1) : s[n + 1] = c}

OnlyAt(s, c) == CHOOSE n \in Occurrences(s, c) : TRUE

\* C2: in a document with one start marker followed by one end marker the
\* call returns the document with the text between the markers replaced by
\* a newline, the fragment as it is and a newline; without any marker, a
\* document with one fallback container gets the fragment there instead.
C2_FragmentVerbatimBetweenMarkers ==
  pc \in {"injected", "failed"} =>
    LET ns == Occurrences(html_text, PUBS_START)
        ne == Occurrences(html_text, PUBS_END)
        nd == Occurrences(html_text, DIV_PUBS)
        nt == {q \in 0..(Len(html_text) - 1) : TailMatchEnd(html_text, q) # -1}
    IN /\ (Cardinality(ns) = 1 /\ Cardinality(ne) = 1
           /\ OnlyAt(html_text, PUBS_START) < OnlyAt(html_text, PUBS_END))
          => /\ new_html.ok
             /\ new_html.val =
                  Slice(html_text, 0, OnlyAt(html_text, PUBS_START) + 1)
                  \o <<NL>> \o pubs_html \o <<NL>>
                  \o Slice(html_text, OnlyAt(html_text, PUBS_END),
                           Len(html_text))
       /\ (ns = {} /\ ne = {} /\ Cardinality(nd) = 1 /\ Cardinality(nt) = 1
           /\ OnlyAt(html_text, DIV_PUBS) < Min(nt))
          => /\ new_html.ok
             /\ new_html.val =
                  Slice(html_text, 0, OnlyAt(html_text, DIV_PUBS) + 1)
                  \o <<NL>> \o pubs_html \o <<NL>>
                  \o Slice(html_text, Min(nt), Len(html_text))

\* C10: for a document with both markers, injecting the same fragment into
\* the result of the first injection gives that result again.
C10_RerunIsFixedPoint ==
  (pc = "reinjected" /\ HasMarkers(html_text)) => rerun_html = new_html

\* ------------------------------------------------------------------------
\* Properties of main
\* ------------------------------------------------------------------------
\* the records of the corpus: those of the source files of the directory
CorpusEntries ==
  LET files == SourceFiles(bib_dir)
  IN Concat([n \in 1..Len(files) |-> parse_bibtex_entries(bib_dir[files[n]])])

\* C3: a run ends in an error exactly when the directory is missing or the
\* corpus has no usable entry; every other run writes the two aggregate
\* files, rewrites the page and ends normally after the message.
C3_FatalOnlyOnMissingInput ==
  pc = "exit" =>
    /\ (exit_status # "ok") <=> (~dir_exists \/ CorpusEntries = <<>>)
    /\ exit_status = "ok" =>
         /\ {"all.pub", "all.bib"} \subseteq DOMAIN bib_dir
         /\ bib_dir["all.pub"] = all_bib /\ bib_dir["all.bib"] = all_bib
         /\ index_html = new_html.val

====
